---- MODULE Spec2Model ----
(***************************************************************************)
(* Proposal authorization protocol of the vault sentinel: the Executor,    *)
(* PolicyManager, Vault and AuditLog contracts and the agent-side Signer.  *)
(* One transaction is one atomic step; a failed require reverts the whole  *)
(* transaction.                                                            *)
(***************************************************************************)
EXTENDS Integers, Sequences, FiniteSets, TLC

VARIABLES
    now,                 \* block.timestamp
    agentSigner,         \* Executor.agentSigner
    usedNonces,          \* Executor.usedNonces: the nonce keys mapped to true
    vaultPolicies,       \* PolicyManager.vaultPolicies
    authorizedValidators,\* PolicyManager.authorizedValidators
    authorizedExecutors, \* Vault.authorizedExecutors, per vault
    lastActivity,        \* Vault.lastActivity, per vault
    authorizedLoggers,   \* AuditLog.authorizedLoggers, auditLog, per deployed AuditLog
    executionLogs,       \* AuditLog.executionLogs: the logs whose exists flag is set, per AuditLog
    allExecutions,       \* AuditLog.allExecutions, per AuditLog
    auditLog,            \* Executor.auditLog
    adminOps,            \* number of successful administrative transactions so far
    executed,            \* history: the submissions that were Executed
    pauseHist,           \* history: signer at the last emergencyPause, key of the last emergencyUnpause
    dbVaults,            \* database: the vaultAddress of every row of table Vault
    policyRows,          \* database: the rows of table Policy
    calls,               \* the backend's policy requests, each with its position and locals
    dateNow,             \* the agent's clock: Math.floor(Date.now() / 1000)
    nonceTracker,        \* Signer.nonceTracker, an absent key reading as 0
    issued,              \* history: the (vault, nonce) pairs the Signer issued, in order
    created,             \* history: the proposals createProposal returned, with their time
    gasPrice,            \* the network's gas price in gwei, as provider.getGasPrice() answers
    relay,               \* the relay requests under way: position, locals and response
    submitted            \* history: the transactions the relayer sent, with their gas price

contractVars == <<now, agentSigner, usedNonces, vaultPolicies, authorizedValidators,
                  authorizedExecutors, lastActivity, authorizedLoggers, auditLog, executionLogs,
                  allExecutions, adminOps, executed, pauseHist>>

dbVars == <<dbVaults, policyRows, calls>>

agentVars == <<dateNow, nonceTracker, issued, created>>

relayVars == <<gasPrice, relay, submitted>>

vars == <<now, agentSigner, usedNonces, vaultPolicies, authorizedValidators,
          authorizedExecutors, lastActivity, authorizedLoggers, auditLog, executionLogs,
          allExecutions, adminOps, executed, pauseHist, dbVaults, policyRows, calls,
          dateNow, nonceTracker, issued, created, gasPrice, relay, submitted>>

chainVars == <<agentSigner, usedNonces, vaultPolicies, authorizedValidators,
               authorizedExecutors, lastActivity, authorizedLoggers, auditLog,
               executionLogs, allExecutions>>

----------------------------------------------------------------------------
(* Bounds of the model *)

DeployTime == 10000
MaxTicks == 1
MaxNonce == 2
MaxAdminOps == 2
MaxExecutions == 2
\* Largest unsigned integer of the model, standing for 2^256 - 1.
MaxUint == 100000

(* Program constants *)

MAX_DEADLINE_DURATION == 3600
MIN_DEADLINE_DURATION == 300

----------------------------------------------------------------------------
(* Identities *)

ZERO == "0x0"
Owner == "owner"
Relayer == "relayer"
OtherRelayer == "relayerB"
ExecutorAddr == "executor"
DeployedAuditLog == "auditLogA"
AuditLogs == {"auditLogA", "auditLogB"}
AgentWallet == "agentA"
Keys == {"agentA", "agentB"}
JunkAddress == "0xjunk"
Vaults == {"vaultA", "vaultB"}
UnsetVault == "vaultNew"
Senders == {Owner, Relayer}
Relayers == {Relayer, OtherRelayer}
NoKey == "none"

OK == "ok"
Executed == "Executed"

----------------------------------------------------------------------------
(* Hashing, encoding and signatures.  A byte string is the sequence of its  *)
(* fields, each with its width in bytes; keccak256 is collision free.       *)

Keccak256(bytes) == <<"keccak256", bytes>>

ParamsLength(params) == 32 * Len(params)

EncodePacked(p) ==
    << <<20, p.vault>>, <<1, p.actionType>>, <<ParamsLength(p.params), p.params>>,
       <<32, p.ipfsHash>>, <<32, p.nonce>>, <<32, p.deadline>> >>

_getProposalHash(p) == Keccak256(EncodePacked(p))

encodeProposal(p) ==
    << <<32, p.vault>>, <<32, p.actionType>>, <<32, 192>>,
       <<32, p.ipfsHash>>, <<32, p.nonce>>, <<32, p.deadline>>,
       <<32, ParamsLength(p.params)>>, <<ParamsLength(p.params), p.params>> >>

EthSignedMessageHash(hash) ==
    Keccak256(<< <<28, "x19 Ethereum Signed Message: n32">>, <<32, hash>> >>)

signMessage(key, hash) ==
    [len |-> 65, v |-> 27, key |-> key, digest |-> EthSignedMessageHash(hash)]

signProposal(p) == signMessage(AgentWallet, Keccak256(encodeProposal(p)))

ecrecover(digest, sig) ==
    IF sig.v \notin {27, 28} THEN ZERO
    ELSE IF sig.digest = digest THEN sig.key
    ELSE JunkAddress

\* Faulty variant: any well-formed signature is accepted, whoever signed.
_verifySignature_anySigner(proposalHash, sig) ==
    ecrecover(EthSignedMessageHash(proposalHash), sig) # ZERO

_verifySignature(proposalHash, sig) ==
    ecrecover(EthSignedMessageHash(proposalHash), sig) = agentSigner

NonceKey(signer, nonce) == Keccak256(<< <<20, signer>>, <<32, nonce>> >>)

\* Faulty variant: a nonce consumed under any signer reads used.
isNonceUsed_anySigner(nonce) ==
    \E signer \in Keys \cup {ZERO} : NonceKey(signer, nonce) \in usedNonces

isNonceUsed(nonce) == NonceKey(agentSigner, nonce) \in usedNonces

----------------------------------------------------------------------------
(* PolicyManager *)

MAX_RISK_TOLERANCE == 100
MAX_TRADE_PERCENT == 100
MAX_EMERGENCY_THRESHOLD == 100

NoPolicy ==
    [riskTolerance |-> 0, maxTradePercent |-> 0, emergencyThreshold |-> 0,
     allowedDex |-> <<>>, isActive |-> FALSE, createdAt |-> 0, updatedAt |-> 0]

Ret(isValid, message) == [reverted |-> FALSE, isValid |-> isValid, message |-> message]
Rev(message) == [reverted |-> TRUE, isValid |-> FALSE, message |-> message]

onlyAuthorizedValidator(caller) == caller \in authorizedValidators \/ caller = Owner

\* Faulty variant: the percentage is rounded up.
PercentOf_roundedUp(amount, vaultBalance) ==
    (amount * 100 + vaultBalance - 1) \div vaultBalance

PercentOf(amount, vaultBalance) == (amount * 100) \div vaultBalance

\* Checked arithmetic: the multiplication or the division of the percentage panics.
PercentPanics(amount, vaultBalance) == amount * 100 > MaxUint \/ vaultBalance = 0

PercentPanic(amount, vaultBalance) ==
    IF amount * 100 > MaxUint THEN "Panic: arithmetic overflow" ELSE "Panic: division by zero"

\* Faulty variant: the venue is not compared with the policy's list.
_validateSwapAction_anyVenue(params, policy) ==
    IF Len(params) < 3 THEN Rev("abi.decode")
    ELSE IF PercentPanics(params[2], params[3]) THEN Rev(PercentPanic(params[2], params[3]))
    ELSE IF PercentOf(params[2], params[3]) > policy.maxTradePercent
         THEN Ret(FALSE, "PolicyManager: Trade size exceeds maximum allowed")
    ELSE Ret(TRUE, "")

_validateSwapAction(params, policy) ==
    IF Len(params) < 3 THEN Rev("abi.decode")
    ELSE LET dexAddress == params[1]
             tradeAmount == params[2]
             vaultBalance == params[3]
             dexAllowed == \E i \in 1..Len(policy.allowedDex) : policy.allowedDex[i] = dexAddress
         IN  IF ~dexAllowed THEN Ret(FALSE, "PolicyManager: DEX not allowed by policy")
             ELSE IF PercentPanics(tradeAmount, vaultBalance)
                  THEN Rev(PercentPanic(tradeAmount, vaultBalance))
             ELSE IF PercentOf(tradeAmount, vaultBalance) > policy.maxTradePercent
                  THEN Ret(FALSE, "PolicyManager: Trade size exceeds maximum allowed")
             ELSE Ret(TRUE, "")

_validateLendingAction(params, policy) ==
    IF Len(params) < 2 THEN Rev("abi.decode")
    ELSE LET lendAmount == params[1]
             vaultBalance == params[2]
         IN  IF PercentPanics(lendAmount, vaultBalance)
             THEN Rev(PercentPanic(lendAmount, vaultBalance))
             ELSE IF PercentOf(lendAmount, vaultBalance) > policy.maxTradePercent
                  THEN Ret(FALSE, "PolicyManager: Lending amount exceeds maximum allowed")
             ELSE Ret(TRUE, "")

_validateBorrowingAction(params, policy) ==
    IF Len(params) < 2 THEN Rev("abi.decode")
    ELSE LET borrowAmount == params[1]
             vaultBalance == params[2]
         IN  IF PercentPanics(borrowAmount, vaultBalance)
             THEN Rev(PercentPanic(borrowAmount, vaultBalance))
             ELSE IF PercentOf(borrowAmount, vaultBalance) > policy.maxTradePercent
                  THEN Ret(FALSE, "PolicyManager: Borrowing amount exceeds maximum allowed")
             ELSE Ret(TRUE, "")

\* vaultPolicies[vault]: a mapping holds the zero struct for a key never written.
policyOf(vault) ==
    IF vault \in DOMAIN vaultPolicies THEN vaultPolicies[vault] ELSE NoPolicy

\* Faulty variant: a deactivated policy still validates.
validateAction_ignoresInactive(caller, vault, actionType, params) ==
    LET policy == policyOf(vault) IN
    IF ~onlyAuthorizedValidator(caller) THEN Rev("PolicyManager: Unauthorized validator")
    ELSE IF policy.createdAt = 0 THEN Ret(FALSE, "PolicyManager: No policy found for vault")
    ELSE IF actionType = 0 THEN _validateSwapAction(params, policy)
    ELSE IF actionType = 1 THEN _validateLendingAction(params, policy)
    ELSE IF actionType = 2 THEN _validateBorrowingAction(params, policy)
    ELSE Ret(FALSE, "PolicyManager: Unsupported action type")

validateAction(caller, vault, actionType, params) ==
    LET policy == policyOf(vault) IN
    IF ~onlyAuthorizedValidator(caller) THEN Rev("PolicyManager: Unauthorized validator")
    ELSE IF policy.createdAt = 0 THEN Ret(FALSE, "PolicyManager: No policy found for vault")
    ELSE IF ~policy.isActive THEN Ret(FALSE, "PolicyManager: Policy is inactive")
    ELSE IF actionType = 0 THEN _validateSwapAction(params, policy)
    ELSE IF actionType = 1 THEN _validateLendingAction(params, policy)
    ELSE IF actionType = 2 THEN _validateBorrowingAction(params, policy)
    ELSE Ret(FALSE, "PolicyManager: Unsupported action type")

----------------------------------------------------------------------------
(* Vault and AuditLog, as called by the Executor *)

executeActionResult(caller, vault) ==
    IF caller \notin authorizedExecutors[vault] THEN "Vault: Unauthorized executor" ELSE OK

onlyAuthorizedLogger(log, caller) == caller = Owner \/ caller \in authorizedLoggers[log]

LoggedHashes(log) == {l.proposalHash : l \in executionLogs[log]}

\* Faulty variant: a hash that is already recorded is accepted again.
logExecutionResult_overwrites(log, caller, vault, executor, proposalHash, ipfsHash) ==
    IF ~onlyAuthorizedLogger(log, caller) THEN "AuditLog: Unauthorized logger"
    ELSE IF vault = ZERO THEN "AuditLog: Invalid vault address"
    ELSE IF executor = ZERO THEN "AuditLog: Invalid executor address"
    ELSE IF proposalHash = ZERO THEN "AuditLog: Invalid proposal hash"
    ELSE IF ipfsHash = ZERO THEN "AuditLog: Invalid IPFS hash"
    ELSE OK

logExecutionResult(log, caller, vault, executor, proposalHash, ipfsHash) ==
    IF ~onlyAuthorizedLogger(log, caller) THEN "AuditLog: Unauthorized logger"
    ELSE IF vault = ZERO THEN "AuditLog: Invalid vault address"
    ELSE IF executor = ZERO THEN "AuditLog: Invalid executor address"
    ELSE IF proposalHash = ZERO THEN "AuditLog: Invalid proposal hash"
    ELSE IF ipfsHash = ZERO THEN "AuditLog: Invalid IPFS hash"
    ELSE IF proposalHash \in LoggedHashes(log) THEN "AuditLog: Execution already logged"
    ELSE OK

ExecutionLog(vault, executor, actionType, params, proposalHash, ipfsHash, timestamp) ==
    [vault |-> vault, executor |-> executor, actionType |-> actionType, params |-> params,
     proposalHash |-> proposalHash, ipfsHash |-> ipfsHash, timestamp |-> timestamp]

----------------------------------------------------------------------------
(* Executor.executeProposal *)

\* Faulty variant: no minimum distance to the deadline.
validDeadline_noMinimum(deadline) ==
    IF ~(deadline > now) THEN "Executor: Deadline has passed"
    ELSE IF ~(deadline <= now + MAX_DEADLINE_DURATION) THEN "Executor: Deadline too far"
    ELSE OK

\* Faulty variant: no maximum distance to the deadline.
validDeadline_noMaximum(deadline) ==
    IF ~(deadline > now) THEN "Executor: Deadline has passed"
    ELSE IF ~(deadline >= now + MIN_DEADLINE_DURATION) THEN "Executor: Deadline too soon"
    ELSE OK

validDeadline(deadline) ==
    IF ~(deadline > now) THEN "Executor: Deadline has passed"
    ELSE IF ~(deadline <= now + MAX_DEADLINE_DURATION) THEN "Executor: Deadline too far"
    ELSE IF ~(deadline >= now + MIN_DEADLINE_DURATION) THEN "Executor: Deadline too soon"
    ELSE OK

SignatureCheck(p, sig) ==
    IF sig.len # 65 THEN "Executor: Invalid signature length"
    ELSE IF ~_verifySignature(_getProposalHash(p), sig) THEN "Executor: Invalid signature"
    ELSE OK

\* Faulty variant: the replay check is missing.
ReplayCheck_missing(p) == OK

\* Faulty variant: a nonce below a consumed one is refused.
ReplayCheck_inOrder(p) ==
    IF \E n \in p.nonce..MaxNonce : NonceKey(agentSigner, n) \in usedNonces
    THEN "Executor: Nonce already used" ELSE OK

ReplayCheck(p) ==
    IF NonceKey(agentSigner, p.nonce) \in usedNonces THEN "Executor: Nonce already used" ELSE OK

PolicyCheck(p) ==
    LET v == validateAction(ExecutorAddr, p.vault, p.actionType, p.params)
    IN  IF v.reverted \/ ~v.isValid THEN v.message ELSE OK

EffectCheck(sender, p) ==
    LET a == executeActionResult(ExecutorAddr, p.vault)
    IN  IF a # OK THEN a
        ELSE logExecutionResult(auditLog, ExecutorAddr, p.vault, sender,
                                _getProposalHash(p), p.ipfsHash)

\* Faulty variant: the signature is verified before the deadline.
executeProposalResult_signatureFirst(sender, p, sig) ==
    IF SignatureCheck(p, sig) # OK THEN SignatureCheck(p, sig)
    ELSE IF validDeadline(p.deadline) # OK THEN validDeadline(p.deadline)
    ELSE IF ReplayCheck(p) # OK THEN ReplayCheck(p)
    ELSE IF PolicyCheck(p) # OK THEN PolicyCheck(p)
    ELSE IF EffectCheck(sender, p) # OK THEN EffectCheck(sender, p)
    ELSE Executed

\* The outcome of one executeProposal transaction: Executed, or the reason of
\* the first require that fails.
executeProposalResult(sender, p, sig) ==
    IF validDeadline(p.deadline) # OK THEN validDeadline(p.deadline)
    ELSE IF SignatureCheck(p, sig) # OK THEN SignatureCheck(p, sig)
    ELSE IF ReplayCheck(p) # OK THEN ReplayCheck(p)
    ELSE IF PolicyCheck(p) # OK THEN PolicyCheck(p)
    ELSE IF EffectCheck(sender, p) # OK THEN EffectCheck(sender, p)
    ELSE Executed

\* Faulty variant: the nonce key is not recorded.
MarkUsed_forgotten(nonceKey) == usedNonces

MarkUsed(nonceKey) == usedNonces \cup {nonceKey}

\* A revert discards every storage write of the transaction.
Revert(before, written) == before

\* usedNonces at the end of one executeProposal transaction.
usedNoncesAfter(sender, p, sig) ==
    LET marked == IF validDeadline(p.deadline) = OK /\ SignatureCheck(p, sig) = OK
                     /\ ReplayCheck(p) = OK
                  THEN MarkUsed(NonceKey(agentSigner, p.nonce))
                  ELSE usedNonces
    IN  IF executeProposalResult(sender, p, sig) = Executed THEN marked
        ELSE Revert(usedNonces, marked)

\* The transaction on the contracts.
executeProposalTx(sender, p, sig) ==
    /\ Cardinality(executed) < MaxExecutions
    /\ usedNonces' = usedNoncesAfter(sender, p, sig)
    /\ LET proposalHash == _getProposalHash(p)
       IN  IF executeProposalResult(sender, p, sig) = Executed
           THEN /\ lastActivity' = [lastActivity EXCEPT ![p.vault] = now]
                /\ executionLogs' = [executionLogs EXCEPT ![auditLog] = @ \cup
                       {ExecutionLog(p.vault, sender, p.actionType, p.params,
                                     proposalHash, p.ipfsHash, now)}]
                /\ allExecutions' = [allExecutions EXCEPT ![auditLog] =
                                        Append(@, proposalHash)]
                /\ executed' = executed \cup
                       {[p |-> p, sig |-> sig, sender |-> sender,
                         signer |-> agentSigner, at |-> now]}
           ELSE UNCHANGED <<lastActivity, executionLogs, allExecutions, executed>>
    /\ UNCHANGED <<now, agentSigner, vaultPolicies, authorizedValidators,
                   authorizedExecutors, authorizedLoggers, auditLog, adminOps, pauseHist>>

executeProposal(sender, p, sig) ==
    /\ executeProposalTx(sender, p, sig)
    /\ UNCHANGED <<dbVars, agentVars, relayVars>>

----------------------------------------------------------------------------
(* Administrative transactions *)

\* Faulty variant: every caller passes.
onlyOwner_anyone(caller) == OK

onlyOwner(caller) == IF caller = Owner THEN OK ELSE "Ownable: caller is not the owner"

\* A reverted transaction leaves every contract as it was.
Reverted(op, reason) == UNCHANGED vars

updateAgentSigner(caller, newAgentSigner) ==
    /\ adminOps < MaxAdminOps
    /\ IF onlyOwner(caller) # OK THEN Reverted("updateAgentSigner", onlyOwner(caller))
       ELSE IF newAgentSigner = ZERO
            THEN Reverted("updateAgentSigner", "Executor: Invalid agent signer")
       ELSE /\ agentSigner' = newAgentSigner
            /\ pauseHist' = [old |-> NoKey, new |-> NoKey]
            /\ adminOps' = adminOps + 1
            /\ UNCHANGED <<dbVars, agentVars, relayVars, now, usedNonces, vaultPolicies, authorizedValidators,
                           authorizedExecutors, lastActivity, authorizedLoggers, auditLog,
                           executionLogs, allExecutions, executed>>

emergencyPause(caller) ==
    /\ adminOps < MaxAdminOps
    /\ IF onlyOwner(caller) # OK THEN Reverted("emergencyPause", onlyOwner(caller))
       ELSE /\ agentSigner' = ZERO
            /\ pauseHist' = [old |-> IF agentSigner = ZERO THEN pauseHist.old ELSE agentSigner,
                             new |-> NoKey]
            /\ adminOps' = adminOps + 1
            /\ UNCHANGED <<dbVars, agentVars, relayVars, now, usedNonces, vaultPolicies, authorizedValidators,
                           authorizedExecutors, lastActivity, authorizedLoggers, auditLog,
                           executionLogs, allExecutions, executed>>

emergencyUnpause(caller, newAgentSigner) ==
    /\ adminOps < MaxAdminOps
    /\ IF onlyOwner(caller) # OK THEN Reverted("emergencyUnpause", onlyOwner(caller))
       ELSE IF newAgentSigner = ZERO
            THEN Reverted("emergencyUnpause", "Executor: Invalid agent signer")
       ELSE /\ agentSigner' = newAgentSigner
            /\ pauseHist' = [pauseHist EXCEPT !.new = newAgentSigner]
            /\ adminOps' = adminOps + 1
            /\ UNCHANGED <<dbVars, agentVars, relayVars, now, usedNonces, vaultPolicies, authorizedValidators,
                           authorizedExecutors, lastActivity, authorizedLoggers, auditLog,
                           executionLogs, allExecutions, executed>>

\* Faulty variant: maxTradePercent is not validated.
setPolicyResult_noTradeCheck(caller, vault, riskTolerance, maxTradePercent, emergencyThreshold, allowedDex) ==
    IF onlyOwner(caller) # OK THEN onlyOwner(caller)
    ELSE IF ~(riskTolerance <= MAX_RISK_TOLERANCE) THEN "PolicyManager: Invalid risk tolerance"
    ELSE IF ~(emergencyThreshold <= MAX_EMERGENCY_THRESHOLD)
         THEN "PolicyManager: Invalid emergency threshold"
    ELSE IF vault = ZERO THEN "PolicyManager: Invalid vault address"
    ELSE IF ~(Len(allowedDex) > 0) THEN "PolicyManager: Must specify at least one DEX"
    ELSE IF \E i \in 1..Len(allowedDex) : allowedDex[i] = ZERO
         THEN "PolicyManager: Invalid DEX address"
    ELSE OK

setPolicyResult(caller, vault, riskTolerance, maxTradePercent, emergencyThreshold, allowedDex) ==
    IF onlyOwner(caller) # OK THEN onlyOwner(caller)
    ELSE IF ~(riskTolerance <= MAX_RISK_TOLERANCE) THEN "PolicyManager: Invalid risk tolerance"
    ELSE IF ~(maxTradePercent <= MAX_TRADE_PERCENT) THEN "PolicyManager: Invalid trade percent"
    ELSE IF ~(emergencyThreshold <= MAX_EMERGENCY_THRESHOLD)
         THEN "PolicyManager: Invalid emergency threshold"
    ELSE IF vault = ZERO THEN "PolicyManager: Invalid vault address"
    ELSE IF ~(Len(allowedDex) > 0) THEN "PolicyManager: Must specify at least one DEX"
    ELSE IF \E i \in 1..Len(allowedDex) : allowedDex[i] = ZERO
         THEN "PolicyManager: Invalid DEX address"
    ELSE OK

\* The policy struct after the assignments of setPolicy.
setPolicyWritten(vault, riskTolerance, maxTradePercent, emergencyThreshold, allowedDex) ==
    LET policy == vaultPolicies[vault]
        isUpdate == policy.createdAt > 0
    IN  [riskTolerance |-> riskTolerance,
         maxTradePercent |-> maxTradePercent,
         emergencyThreshold |-> emergencyThreshold,
         allowedDex |-> allowedDex,
         isActive |-> TRUE,
         createdAt |-> IF isUpdate THEN policy.createdAt ELSE now,
         updatedAt |-> now]

\* vaultPolicies at the end of one setPolicy transaction.
setPolicyStored(caller, vault, riskTolerance, maxTradePercent, emergencyThreshold, allowedDex) ==
    LET written == [vaultPolicies EXCEPT ![vault] =
                       setPolicyWritten(vault, riskTolerance, maxTradePercent,
                                        emergencyThreshold, allowedDex)]
    IN  IF setPolicyResult(caller, vault, riskTolerance, maxTradePercent,
                           emergencyThreshold, allowedDex) = OK
        THEN written
        ELSE Revert(vaultPolicies, written)

setPolicy(caller, vault, riskTolerance, maxTradePercent, emergencyThreshold, allowedDex) ==
    /\ adminOps < MaxAdminOps
    /\ LET r == setPolicyResult(caller, vault, riskTolerance, maxTradePercent,
                                emergencyThreshold, allowedDex)
       IN  IF r # OK THEN Reverted("setPolicy", r)
           ELSE /\ vaultPolicies' = setPolicyStored(caller, vault, riskTolerance,
                                         maxTradePercent, emergencyThreshold, allowedDex)
                /\ adminOps' = adminOps + 1
                /\ UNCHANGED <<dbVars, agentVars, relayVars, now, agentSigner, usedNonces, authorizedValidators,
                               authorizedExecutors, lastActivity, authorizedLoggers, auditLog,
                               executionLogs, allExecutions, executed, pauseHist>>

deactivatePolicy(caller, vault) ==
    /\ adminOps < MaxAdminOps
    /\ IF onlyOwner(caller) # OK THEN Reverted("deactivatePolicy", onlyOwner(caller))
       ELSE IF ~(vaultPolicies[vault].createdAt > 0)
            THEN Reverted("deactivatePolicy", "PolicyManager: Policy does not exist")
       ELSE /\ vaultPolicies' = [vaultPolicies EXCEPT ![vault].isActive = FALSE,
                                                      ![vault].updatedAt = now]
            /\ adminOps' = adminOps + 1
            /\ UNCHANGED <<dbVars, agentVars, relayVars, now, agentSigner, usedNonces, authorizedValidators,
                           authorizedExecutors, lastActivity, authorizedLoggers, auditLog,
                           executionLogs, allExecutions, executed, pauseHist>>

removeAuthorizedValidator(caller, validator) ==
    /\ adminOps < MaxAdminOps
    /\ IF onlyOwner(caller) # OK THEN Reverted("removeAuthorizedValidator", onlyOwner(caller))
       ELSE /\ authorizedValidators' = authorizedValidators \ {validator}
            /\ adminOps' = adminOps + 1
            /\ UNCHANGED <<dbVars, agentVars, relayVars, now, agentSigner, usedNonces, vaultPolicies,
                           authorizedExecutors, lastActivity, authorizedLoggers, auditLog,
                           executionLogs, allExecutions, executed, pauseHist>>

addAuthorizedValidator(caller, validator) ==
    /\ adminOps < MaxAdminOps
    /\ IF onlyOwner(caller) # OK THEN Reverted("addAuthorizedValidator", onlyOwner(caller))
       ELSE /\ authorizedValidators' = authorizedValidators \cup {validator}
            /\ adminOps' = adminOps + 1
            /\ UNCHANGED <<dbVars, agentVars, relayVars, now, agentSigner, usedNonces, vaultPolicies,
                           authorizedExecutors, lastActivity, authorizedLoggers, auditLog,
                           executionLogs, allExecutions, executed, pauseHist>>

removeAuthorizedExecutor(caller, vault, executor) ==
    /\ adminOps < MaxAdminOps
    /\ IF onlyOwner(caller) # OK THEN Reverted("removeAuthorizedExecutor", onlyOwner(caller))
       ELSE /\ authorizedExecutors' =
                   [authorizedExecutors EXCEPT ![vault] = @ \ {executor}]
            /\ adminOps' = adminOps + 1
            /\ UNCHANGED <<dbVars, agentVars, relayVars, now, agentSigner, usedNonces, vaultPolicies,
                           authorizedValidators, lastActivity, authorizedLoggers, auditLog,
                           executionLogs, allExecutions, executed, pauseHist>>

addAuthorizedExecutor(caller, vault, executor) ==
    /\ adminOps < MaxAdminOps
    /\ IF onlyOwner(caller) # OK THEN Reverted("addAuthorizedExecutor", onlyOwner(caller))
       ELSE /\ authorizedExecutors' =
                   [authorizedExecutors EXCEPT ![vault] = @ \cup {executor}]
            /\ adminOps' = adminOps + 1
            /\ UNCHANGED <<dbVars, agentVars, relayVars, now, agentSigner, usedNonces, vaultPolicies,
                           authorizedValidators, lastActivity, authorizedLoggers, auditLog,
                           executionLogs, allExecutions, executed, pauseHist>>

\* AuditLog.logExecution, called directly by an account.
logExecution(log, caller, vault, executor, actionType, params, proposalHash, ipfsHash, timestamp) ==
    /\ adminOps < MaxAdminOps
    /\ LET r == logExecutionResult(log, caller, vault, executor, proposalHash, ipfsHash)
       IN  IF r # OK THEN Reverted("logExecution", r)
           ELSE /\ executionLogs' = [executionLogs EXCEPT ![log] = @ \cup
                       {ExecutionLog(vault, executor, actionType, params,
                                     proposalHash, ipfsHash, timestamp)}]
                /\ allExecutions' = [allExecutions EXCEPT ![log] = Append(@, proposalHash)]
                /\ adminOps' = adminOps + 1
                /\ UNCHANGED <<dbVars, agentVars, relayVars, now, agentSigner, usedNonces, vaultPolicies,
                               authorizedValidators, authorizedExecutors, lastActivity,
                               authorizedLoggers, auditLog, executed, pauseHist>>

addAuthorizedLogger(log, caller, logger) ==
    /\ adminOps < MaxAdminOps
    /\ IF onlyOwner(caller) # OK THEN Reverted("addAuthorizedLogger", onlyOwner(caller))
       ELSE IF logger = ZERO
            THEN Reverted("addAuthorizedLogger", "AuditLog: Invalid logger address")
       ELSE /\ authorizedLoggers' = [authorizedLoggers EXCEPT ![log] = @ \cup {logger}]
            /\ adminOps' = adminOps + 1
            /\ UNCHANGED <<dbVars, agentVars, relayVars, now, agentSigner, usedNonces, vaultPolicies,
                           authorizedValidators, authorizedExecutors, lastActivity,
                           executionLogs, allExecutions, auditLog, executed, pauseHist>>

removeAuthorizedLogger(log, caller, logger) ==
    /\ adminOps < MaxAdminOps
    /\ IF onlyOwner(caller) # OK THEN Reverted("removeAuthorizedLogger", onlyOwner(caller))
       ELSE /\ authorizedLoggers' = [authorizedLoggers EXCEPT ![log] = @ \ {logger}]
            /\ adminOps' = adminOps + 1
            /\ UNCHANGED <<dbVars, agentVars, relayVars, now, agentSigner, usedNonces, vaultPolicies,
                           authorizedValidators, authorizedExecutors, lastActivity,
                           executionLogs, allExecutions, auditLog, executed, pauseHist>>

updateAuditLog(caller, newAuditLog) ==
    /\ adminOps < MaxAdminOps
    /\ IF onlyOwner(caller) # OK THEN Reverted("updateAuditLog", onlyOwner(caller))
       ELSE IF newAuditLog = ZERO
            THEN Reverted("updateAuditLog", "Executor: Invalid audit log")
       ELSE /\ auditLog' = newAuditLog
            /\ adminOps' = adminOps + 1
            /\ UNCHANGED <<dbVars, agentVars, relayVars, now, agentSigner, usedNonces, vaultPolicies,
                           authorizedValidators, authorizedExecutors, lastActivity,
                           authorizedLoggers, executionLogs, allExecutions, executed,
                           pauseHist>>

\* A new block: block.timestamp advances.
Tick ==
    /\ now < DeployTime + MaxTicks
    /\ now' = now + 1
    /\ UNCHANGED <<dbVars, agentVars, relayVars, chainVars, adminOps, executed, pauseHist>>

----------------------------------------------------------------------------
(* Inputs *)

Nonces == 1..MaxNonce

Deadlines ==
    {DeployTime, DeployTime + 1, DeployTime + MIN_DEADLINE_DURATION,
     DeployTime + MAX_DEADLINE_DURATION, DeployTime + MAX_DEADLINE_DURATION + 1}

SwapX == [actionType |-> 0, params |-> <<"dexX", 100, 1000>>, ipfsHash |-> "QmReport"]
LendOverCap == [actionType |-> 1, params |-> <<200, 1000>>, ipfsHash |-> "QmReport"]
SwapNoReport == [actionType |-> 0, params |-> <<"dexX", 100, 1000>>, ipfsHash |-> ZERO]
Unsupported == [actionType |-> 99, params |-> <<"dexX", 100, 1000>>, ipfsHash |-> "QmReport"]

Payloads == {SwapX, LendOverCap, SwapNoReport, Unsupported}

Proposal(v, pl, n, d) ==
    [vault |-> v, actionType |-> pl.actionType, params |-> pl.params,
     ipfsHash |-> pl.ipfsHash, nonce |-> n, deadline |-> d]

OneHour == DeployTime + MAX_DEADLINE_DURATION

\* The sample swap for every vault and nonce; for the first nonce of the first
\* vault also every payload, every deadline, and an expired lending over the
\* cap; the sample swap for an address that never had a policy.
Proposals ==
    {Proposal(v, SwapX, n, OneHour) : v \in Vaults, n \in Nonces}
    \cup {Proposal("vaultA", pl, 1, OneHour) : pl \in Payloads}
    \cup {Proposal("vaultA", SwapX, 1, d) : d \in Deadlines}
    \cup {Proposal("vaultA", LendOverCap, 1, DeployTime)}
    \cup {Proposal(UnsetVault, SwapX, 1, OneHour)}

\* The arguments of direct logExecution calls: the fields of a signed proposal,
\* the same hash with another vault, and a proposal without a report hash.
LogArgs(vault, p, proposalHash) ==
    [vault |-> vault, executor |-> Relayer, actionType |-> p.actionType,
     params |-> p.params, proposalHash |-> proposalHash, ipfsHash |-> p.ipfsHash]

DirectLogs ==
    LET p == Proposal("vaultA", SwapX, 1, OneHour)
        q == Proposal("vaultA", SwapNoReport, 1, OneHour)
    IN  {LogArgs("vaultA", p, _getProposalHash(p)),
         LogArgs("vaultB", p, _getProposalHash(p)),
         LogArgs("vaultA", q, _getProposalHash(q))}

\* The same proposal under the next nonce: a different proposal.
OtherProposal(p) == [p EXCEPT !.nonce = (p.nonce % MaxNonce) + 1]

MalformedSignature == [len |-> 65, v |-> 0, key |-> ZERO, digest |-> Keccak256(<<>>)]
ShortSignature == [len |-> 32, v |-> 0, key |-> ZERO, digest |-> Keccak256(<<>>)]

\* Signatures a submitter can attach to p: by either key over the Executor's
\* hash of p, by the agent's Signer, over another proposal, or not a signature.
SignaturesFor(p) ==
    {signMessage(k, _getProposalHash(p)) : k \in Keys}
    \cup {signProposal(p), signMessage(AgentWallet, _getProposalHash(OtherProposal(p))),
          MalformedSignature, ShortSignature}

SamplePolicy ==
    [riskTolerance |-> 50, maxTradePercent |-> 10, emergencyThreshold |-> 90,
     allowedDex |-> <<"dexX", "dexY">>, isActive |-> TRUE,
     createdAt |-> DeployTime, updatedAt |-> DeployTime]

PolicyInput(riskTolerance, maxTradePercent, emergencyThreshold, allowedDex) ==
    [riskTolerance |-> riskTolerance, maxTradePercent |-> maxTradePercent,
     emergencyThreshold |-> emergencyThreshold, allowedDex |-> allowedDex]

\* A changed policy, one with every value at its limit, and calls with a value
\* above its limit, without venue, or with the zero address as venue.
PolicyInputs ==
    {PolicyInput(50, 20, 90, <<"dexY">>),
     PolicyInput(MAX_RISK_TOLERANCE, MAX_TRADE_PERCENT, MAX_EMERGENCY_THRESHOLD, <<"dexX">>),
     PolicyInput(MAX_RISK_TOLERANCE + 1, 10, 90, <<"dexX">>),
     PolicyInput(50, MAX_TRADE_PERCENT + 1, 90, <<"dexX">>),
     PolicyInput(50, 10, MAX_EMERGENCY_THRESHOLD + 1, <<"dexX">>),
     PolicyInput(50, 10, 90, <<>>),
     PolicyInput(50, 10, 90, <<"dexX", ZERO>>)}

----------------------------------------------------------------------------
(* The deployed system *)

----------------------------------------------------------------------------
(* Backend database: tables Vault and Policy, and the requests that write them *)

MaxCalls == 3

Calls == 1..MaxCalls

\* What findFirst returns when no row matches.
NoRow == [id |-> 0, vaultAddress |-> ZERO, active |-> FALSE, version |-> 0]

NoCall == [op |-> "none", vaultAddress |-> ZERO, pc |-> "idle", existingPolicy |-> NoRow]

\* The rows prisma.policy.findFirst may return for
\* where {vaultAddress, active: true} orderBy {version: 'desc'}.
findFirst(vaultAddress) ==
    LET matching == {p \in policyRows : p.vaultAddress = vaultAddress /\ p.active}
    IN  IF matching = {} THEN {NoRow}
        ELSE {p \in matching : \A q \in matching : q.version <= p.version}

\* prisma.policy.update where {id} data {active: false}.
policyUpdate(id) ==
    {IF p.id = id THEN [p EXCEPT !.active = FALSE] ELSE p : p \in policyRows}

\* The row prisma.policy.create inserts for a call.
policyCreate(c, vaultAddress, version) ==
    [id |-> c, vaultAddress |-> vaultAddress, active |-> TRUE, version |-> version]

\* The next call that has not started.
Idle(c) ==
    /\ calls[c].pc = "idle"
    /\ \A d \in Calls : d < c => calls[d].pc # "idle"

\* helpers.upsertVault: one upsert statement.
upsertVault(vaultAddress) ==
    /\ vaultAddress \notin dbVaults
    /\ dbVaults' = dbVaults \cup {vaultAddress}
    /\ UNCHANGED <<contractVars, agentVars, relayVars, policyRows, calls>>

\* helpers.upsertPolicy up to its first await: findFirst has answered.
upsertPolicy(c, vaultAddress) ==
    /\ Idle(c)
    /\ \E existingPolicy \in findFirst(vaultAddress) :
           calls' = [calls EXCEPT ![c] =
                        [op |-> "upsertPolicy", vaultAddress |-> vaultAddress,
                         pc |-> "found", existingPolicy |-> existingPolicy]]
    /\ UNCHANGED <<contractVars, agentVars, relayVars, dbVaults, policyRows>>

\* POST /api/policies up to the vault lookup: 404 when the vault is not found.
postPolicies(c, vaultAddress) ==
    /\ Idle(c)
    /\ calls' = [calls EXCEPT ![c] =
                    [op |-> "POST /api/policies", vaultAddress |-> vaultAddress,
                     pc |-> IF vaultAddress \in dbVaults THEN "vault" ELSE "failed",
                     existingPolicy |-> NoRow]]
    /\ UNCHANGED <<contractVars, agentVars, relayVars, dbVaults, policyRows>>

\* POST /api/policies: findFirst has answered.
postPoliciesFindFirst(c) ==
    /\ calls[c].pc = "vault"
    /\ \E existingPolicy \in findFirst(calls[c].vaultAddress) :
           calls' = [calls EXCEPT ![c].pc = "found",
                                  ![c].existingPolicy = existingPolicy]
    /\ UNCHANGED <<contractVars, agentVars, relayVars, dbVaults, policyRows>>

\* Both writers: "Deactivate old policy if exists".
deactivateOld(c) ==
    /\ calls[c].pc = "found"
    /\ calls[c].existingPolicy # NoRow
    /\ policyRows' = policyUpdate(calls[c].existingPolicy.id)
    /\ calls' = [calls EXCEPT ![c].pc = "deactivated"]
    /\ UNCHANGED <<contractVars, agentVars, relayVars, dbVaults>>

\* Both writers: "Create new policy"; the insert fails when the vault row is
\* missing (vaultAddress is a foreign key).
createNew(c) ==
    /\ \/ calls[c].pc = "deactivated"
       \/ calls[c].pc = "found" /\ calls[c].existingPolicy = NoRow
    /\ LET existingPolicy == calls[c].existingPolicy
           nextVersion == IF existingPolicy # NoRow THEN existingPolicy.version + 1 ELSE 1
       IN  IF calls[c].vaultAddress \in dbVaults
           THEN /\ policyRows' = policyRows \cup
                                    {policyCreate(c, calls[c].vaultAddress, nextVersion)}
                /\ calls' = [calls EXCEPT ![c].pc = "done"]
           ELSE /\ calls' = [calls EXCEPT ![c].pc = "failed"]
                /\ UNCHANGED policyRows
    /\ UNCHANGED <<contractVars, agentVars, relayVars, dbVaults>>

\* POST /api/vaults up to its first await: the vault row is inserted; the
\* insert fails when the address is taken.
postVaults(c, vaultAddress) ==
    /\ Idle(c)
    /\ IF vaultAddress \in dbVaults
       THEN /\ calls' = [calls EXCEPT ![c] =
                            [op |-> "POST /api/vaults", vaultAddress |-> vaultAddress,
                             pc |-> "failed", existingPolicy |-> NoRow]]
            /\ UNCHANGED dbVaults
       ELSE /\ calls' = [calls EXCEPT ![c] =
                            [op |-> "POST /api/vaults", vaultAddress |-> vaultAddress,
                             pc |-> "vaultCreated", existingPolicy |-> NoRow]]
            /\ dbVaults' = dbVaults \cup {vaultAddress}
    /\ UNCHANGED <<contractVars, agentVars, relayVars, policyRows>>

\* POST /api/vaults: "Create policy", version 1.
postVaultsPolicy(c) ==
    /\ calls[c].pc = "vaultCreated"
    /\ policyRows' = policyRows \cup {policyCreate(c, calls[c].vaultAddress, 1)}
    /\ calls' = [calls EXCEPT ![c].pc = "done"]
    /\ UNCHANGED <<contractVars, agentVars, relayVars, dbVaults>>

----------------------------------------------------------------------------
(* The agent's Signer *)

MaxIssued == 3

SIGNER_MAX_DEADLINE == 86400

DefaultDeadlineOffset == 3600

\* Params as the agent passes them: JSON text, which is not a hex byte string.
JsonSwap == [actionType |-> 0, params |-> <<"JSON.stringify(action)">>, ipfsHash |-> "QmReport"]

SignerPayloads == {SwapX, JsonSwap}

DeadlineOffsets == {DefaultDeadlineOffset, 0, SIGNER_MAX_DEADLINE + 1}

\* defaultAbiCoder.encode accepts a bytes argument only as a byte string.
Encodable(p) == p.params # JsonSwap.params

NoSignature == [len |-> 0, v |-> 0, key |-> ZERO, digest |-> Keccak256(<<>>)]

\* Signer.signProposal: the signature, or the exception of the encoder.
signProposalResult(p) ==
    IF Encodable(p) THEN [threw |-> FALSE, signature |-> signProposal(p)]
    ELSE [threw |-> TRUE, signature |-> NoSignature]

\* Signer.verifySignature: an exception of the encoder or of verifyMessage is
\* caught and answered with false.
verifySignature(p, sig) ==
    IF ~Encodable(p) THEN FALSE
    ELSE IF sig.len # 65 \/ sig.v \notin {27, 28} THEN FALSE
    ELSE ecrecover(EthSignedMessageHash(Keccak256(encodeProposal(p))), sig) = AgentWallet

getCurrentNonce(vaultAddress) == nonceTracker[vaultAddress]

\* Faulty variant: the counter advances by two.
nextNonce_skips(vaultAddress) == getCurrentNonce(vaultAddress) + 2

\* The value getNextNonce returns and stores.
nextNonce(vaultAddress) == getCurrentNonce(vaultAddress) + 1

Signer_isNonceUsed(vaultAddress, nonce) == nonce <= getCurrentNonce(vaultAddress)

\* The deadline bounds of Signer.validateProposal at time at.
validateProposalDeadline(deadline, at) ==
    /\ ~(deadline <= at)
    /\ ~(deadline > at + SIGNER_MAX_DEADLINE)

getNextNonce(vaultAddress) ==
    /\ Len(issued) < MaxIssued
    /\ nonceTracker' = [nonceTracker EXCEPT ![vaultAddress] = nextNonce(vaultAddress)]
    /\ issued' = Append(issued, <<vaultAddress, nextNonce(vaultAddress)>>)
    /\ UNCHANGED <<contractVars, dbVars, relayVars, dateNow, created>>

createProposal(vaultAddress, payload, deadlineOffset) ==
    /\ Len(issued) < MaxIssued
    /\ LET nonce == nextNonce(vaultAddress)
           deadline == dateNow + deadlineOffset
       IN  /\ nonceTracker' = [nonceTracker EXCEPT ![vaultAddress] = nonce]
           /\ issued' = Append(issued, <<vaultAddress, nonce>>)
           /\ created' = created \cup
                  {[p |-> Proposal(vaultAddress, payload, nonce, deadline),
                    at |-> dateNow]}
    /\ UNCHANGED <<contractVars, dbVars, relayVars, dateNow>>

\* createExecutionReport: createProposal, then signProposal on what it
\* returned; the nonce stays issued when signing throws.
createExecutionReport(vaultAddress, payload, deadlineOffset) ==
    /\ createProposal(vaultAddress, payload, deadlineOffset)
    /\ signProposalResult(Proposal(vaultAddress, payload, nextNonce(vaultAddress),
                                   dateNow + deadlineOffset)).threw \in BOOLEAN

resetNonce(vaultAddress) ==
    /\ nonceTracker' = [nonceTracker EXCEPT ![vaultAddress] = 0]
    /\ UNCHANGED <<contractVars, dbVars, relayVars, dateNow, issued, created>>

\* The agent's clock advances.
Elapse ==
    /\ dateNow < DeployTime + MaxTicks
    /\ dateNow' = dateNow + 1
    /\ UNCHANGED <<contractVars, dbVars, relayVars, nonceTracker, issued, created>>

----------------------------------------------------------------------------
(* RelayerController *)

MaxRelays == 2

RelayIds == 1..MaxRelays

\* config.maxGasPrice in gwei, config.maxGasLimit.
maxGasPrice == 100
maxGasLimit == 500000

DefaultGasLimit == 300000

GasPrices == {50, maxGasPrice, maxGasPrice + 1}

\* What executor.estimateGas.executeProposal answers for a transaction that
\* would go through.
GasEstimates == {200000, 450000}

RelayProposal(n, d) == Proposal("vaultA", SwapX, n, d)

\* The requests posted to the relayer: the agent's proposals under nonce 1 and
\* 2, and one whose deadline has passed.
RelayRequests ==
    << [proposal |-> RelayProposal(1, OneHour),
        signature |-> signMessage(AgentWallet, _getProposalHash(RelayProposal(1, OneHour)))],
       [proposal |-> RelayProposal(2, OneHour),
        signature |-> signMessage(AgentWallet, _getProposalHash(RelayProposal(2, OneHour)))],
       [proposal |-> RelayProposal(1, DeployTime),
        signature |-> signMessage(AgentWallet, _getProposalHash(RelayProposal(1, DeployTime)))] >>

IdleRelay ==
    [pc |-> "idle", request |-> 0, gasPrice |-> 0, gasEstimate |-> 0,
     success |-> FALSE, error |-> ""]

Failure(rl, error) == [rl EXCEPT !.pc = "done", !.success = FALSE, !.error = error]

\* RelayerController.validateRequest for a well-formed request body.
validateRequest(request) ==
    IF request.proposal.deadline <= now THEN "Deadline has passed"
    ELSE IF isNonceUsed(request.proposal.nonce) THEN "Nonce already used"
    ELSE IF request.signature.len # 65 THEN "Validation error"
    ELSE OK

\* The gas price executeTransaction puts on the transaction: read again from
\* the provider.
TxGasPrice(rl) == gasPrice

\* relayProposal up to the answer of validateRequest.
relayProposal(r, i) ==
    /\ relay[r].pc = "idle"
    /\ LET v == validateRequest(RelayRequests[i])
       IN  relay' = [relay EXCEPT ![r] =
               IF v # OK THEN Failure([@ EXCEPT !.request = i], v)
               ELSE [@ EXCEPT !.pc = "validated", !.request = i]]
    /\ UNCHANGED <<contractVars, dbVars, agentVars, gasPrice, submitted>>

\* relayProposal: provider.getGasPrice() answered, the limit checked.
checkGasPrice(r) ==
    /\ relay[r].pc = "validated"
    /\ relay' = [relay EXCEPT ![r] =
           IF gasPrice > maxGasPrice THEN Failure([@ EXCEPT !.gasPrice = gasPrice], "Gas price too high")
           ELSE [@ EXCEPT !.pc = "priced", !.gasPrice = gasPrice]]
    /\ UNCHANGED <<contractVars, dbVars, agentVars, gasPrice, submitted>>

\* relayProposal: estimateGas answered (the default when the estimation
\* fails), the limit checked.
estimateGas(r) ==
    /\ relay[r].pc = "priced"
    /\ LET request == RelayRequests[relay[r].request]
           goesThrough ==
               executeProposalResult(Relayer, request.proposal, request.signature) = Executed
       IN  \E e \in GasEstimates :
               LET gasEstimate == IF goesThrough THEN (e * 120) \div 100 ELSE DefaultGasLimit
               IN  relay' = [relay EXCEPT ![r] =
                       IF gasEstimate > maxGasLimit
                       THEN Failure([@ EXCEPT !.gasEstimate = gasEstimate], "Gas limit too high")
                       ELSE [@ EXCEPT !.pc = "estimated", !.gasEstimate = gasEstimate]]
    /\ UNCHANGED <<contractVars, dbVars, agentVars, gasPrice, submitted>>

\* executeTransaction: the transaction is sent.
executeTransaction(r) ==
    /\ relay[r].pc = "estimated"
    /\ submitted' = submitted \cup
           {[request |-> relay[r].request, gasLimit |-> relay[r].gasEstimate,
             gasPrice |-> TxGasPrice(relay[r])]}
    /\ relay' = [relay EXCEPT ![r].pc = "submitted"]
    /\ UNCHANGED <<contractVars, dbVars, agentVars, gasPrice>>

\* tx.wait(): the transaction is mined and relayProposal answers.
txWait(r) ==
    /\ relay[r].pc = "submitted"
    /\ LET request == RelayRequests[relay[r].request]
           result == executeProposalResult(Relayer, request.proposal, request.signature)
       IN  /\ executeProposalTx(Relayer, request.proposal, request.signature)
           /\ relay' = [relay EXCEPT ![r] =
                  IF result = Executed THEN [@ EXCEPT !.pc = "done", !.success = TRUE]
                  ELSE Failure(@, result)]
    /\ UNCHANGED <<dbVars, agentVars, gasPrice, submitted>>

\* The network's gas price moves.
GasPriceChange(g) ==
    /\ g # gasPrice
    /\ gasPrice' = g
    /\ UNCHANGED <<contractVars, dbVars, agentVars, relay, submitted>>

----------------------------------------------------------------------------

Init ==
    /\ now = DeployTime
    /\ agentSigner = AgentWallet
    /\ usedNonces = {}
    /\ vaultPolicies = [v \in Vaults |-> SamplePolicy]
    /\ authorizedValidators = {ExecutorAddr}
    /\ authorizedExecutors = [v \in Vaults |-> {ExecutorAddr}]
    /\ lastActivity = [v \in Vaults |-> DeployTime]
    /\ authorizedLoggers = [log \in AuditLogs |->
                                IF log = DeployedAuditLog THEN {ExecutorAddr} ELSE {}]
    /\ executionLogs = [log \in AuditLogs |-> {}]
    /\ allExecutions = [log \in AuditLogs |-> <<>>]
    /\ auditLog = DeployedAuditLog
    /\ adminOps = 0
    /\ executed = {}
    /\ pauseHist = [old |-> NoKey, new |-> NoKey]
    /\ dbVaults = {}
    /\ policyRows = {}
    /\ calls = [c \in Calls |-> NoCall]
    /\ dateNow = DeployTime
    /\ nonceTracker = [v \in Vaults |-> 0]
    /\ issued = <<>>
    /\ created = {}
    /\ gasPrice = 50
    /\ relay = [r \in RelayIds |-> IdleRelay]
    /\ submitted = {}

Next ==
    \/ \E s \in Relayers, p \in Proposals : \E sig \in SignaturesFor(p) :
           executeProposal(s, p, sig)
    \/ \E c \in Senders, k \in Keys \cup {ZERO} : updateAgentSigner(c, k)
    \/ \E c \in Senders : emergencyPause(c)
    \/ \E c \in Senders, k \in Keys \cup {ZERO} : emergencyUnpause(c, k)
    \/ \E c \in Senders, v \in Vaults, pi \in PolicyInputs :
           setPolicy(c, v, pi.riskTolerance, pi.maxTradePercent,
                     pi.emergencyThreshold, pi.allowedDex)
    \/ \E c \in Senders, v \in Vaults : deactivatePolicy(c, v)
    \/ \E c \in Senders : removeAuthorizedValidator(c, ExecutorAddr)
    \/ \E c \in Senders : addAuthorizedValidator(c, ExecutorAddr)
    \/ \E c \in Senders, v \in Vaults : removeAuthorizedExecutor(c, v, ExecutorAddr)
    \/ \E c \in Senders, v \in Vaults : addAuthorizedExecutor(c, v, ExecutorAddr)
    \/ Tick

Spec == Init /\ [][Next]_vars

\* The transactions that write the audit trail or choose the AuditLog the
\* Executor writes to.
AuditNext ==
    \/ \E s \in Relayers, p \in Proposals : \E sig \in SignaturesFor(p) :
           executeProposal(s, p, sig)
    \/ \E log \in AuditLogs, c \in Senders, a \in DirectLogs :
           logExecution(log, c, a.vault, a.executor, a.actionType, a.params,
                        a.proposalHash, a.ipfsHash, now)
    \/ \E log \in AuditLogs, c \in Senders : addAuthorizedLogger(log, c, ExecutorAddr)
    \/ \E log \in AuditLogs, c \in Senders : removeAuthorizedLogger(log, c, ExecutorAddr)
    \/ \E c \in Senders, log \in AuditLogs \cup {ZERO} : updateAuditLog(c, log)
    \/ Tick

SpecAudit == Init /\ [][AuditNext]_vars

\* The requests of the backend, interleaving at their awaits.
DbNext ==
    \/ \E v \in Vaults : upsertVault(v)
    \/ \E c \in Calls, v \in Vaults : upsertPolicy(c, v)
    \/ \E c \in Calls, v \in Vaults : postPolicies(c, v)
    \/ \E c \in Calls : postPoliciesFindFirst(c)
    \/ \E c \in Calls : deactivateOld(c)
    \/ \E c \in Calls : createNew(c)
    \/ \E c \in Calls, v \in Vaults : postVaults(c, v)
    \/ \E c \in Calls : postVaultsPolicy(c)

SpecDb == Init /\ [][DbNext]_vars

\* The calls of the agent on its Signer.
SignerNext ==
    \/ \E v \in Vaults : getNextNonce(v)
    \/ \E v \in Vaults, pl \in SignerPayloads, d \in DeadlineOffsets :
           createProposal(v, pl, d)
    \/ \E v \in Vaults, pl \in SignerPayloads, d \in DeadlineOffsets :
           createExecutionReport(v, pl, d)
    \/ \E v \in Vaults : resetNonce(v)
    \/ Elapse

SpecSigner == Init /\ [][SignerNext]_vars

\* The relay requests, step by step, while the gas price moves and time passes.
RelayNext ==
    \/ \E r \in RelayIds, i \in 1..Len(RelayRequests) : relayProposal(r, i)
    \/ \E r \in RelayIds : checkGasPrice(r)
    \/ \E r \in RelayIds : estimateGas(r)
    \/ \E r \in RelayIds : executeTransaction(r)
    \/ \E r \in RelayIds : txWait(r)
    \/ \E g \in GasPrices : GasPriceChange(g)
    \/ Tick

SpecRelay == Init /\ [][RelayNext]_vars

----------------------------------------------------------------------------
(* Replay protection *)

NonceReused == "Executor: Nonce already used"

\* C1: a (proposal, signature) pair that was Executed is never Executed again:
\* submitting it once more is rejected, and as "Executor: Nonce already used"
\* whenever the pair is still valid (its deadline and signature checks pass);
\* the audit log never holds the same proposal twice.
C1_ReplayRejected ==
    /\ \A e \in executed :
           LET r == executeProposalResult(e.sender, e.p, e.sig)
           IN  /\ r # Executed
               /\ (validDeadline(e.p.deadline) = OK /\ SignatureCheck(e.p, e.sig) = OK)
                      => r = NonceReused
    /\ \A log \in AuditLogs : \A i, j \in 1..Len(allExecutions[log]) :
           allExecutions[log][i] = allExecutions[log][j] => i = j

\* An Executed pair, submitted a second time, is rejected as a reused nonce.
C1_Witness ==
    \E e \in executed : executeProposalResult(e.sender, e.p, e.sig) = NonceReused

\* C2: whatever the interleaving of submissions, at most one submission per
\* (agentSigner, nonce) is Executed: its key is marked used in the same step,
\* and from then on every submission carrying that signer and nonce fails the
\* replay check and is not Executed.
C2_OneExecutionPerNonce ==
    /\ \A e, f \in executed :
           (e.signer = f.signer /\ e.p.nonce = f.p.nonce) => e = f
    /\ \A e \in executed : NonceKey(e.signer, e.p.nonce) \in usedNonces
    /\ \A e \in executed : agentSigner = e.signer =>
           \A s \in Relayers, p \in Proposals : p.nonce = e.p.nonce =>
               /\ ReplayCheck(p) # OK
               /\ \A sig \in SignaturesFor(p) : executeProposalResult(s, p, sig) # Executed

\* After an execution, a different proposal with the same nonce and a valid
\* signature of the same signer, sent by another relayer, is rejected at the
\* replay check.
C2_Witness ==
    \E e \in executed, p \in Proposals :
        /\ p # e.p /\ p.nonce = e.p.nonce /\ agentSigner = e.signer
        /\ agentSigner \in Keys
        /\ \E s \in Relayers \ {e.sender} :
               executeProposalResult(s, p, signMessage(agentSigner, _getProposalHash(p)))
                   = NonceReused

----------------------------------------------------------------------------
(* Emergency pause *)

InvalidSignature == "Executor: Invalid signature"

Recovered(p, sig) == ecrecover(EthSignedMessageHash(_getProposalHash(p)), sig)

\* C3: while agentSigner is the null identity (after emergencyPause, before
\* emergencyUnpause) no proposal is Executed, whatever its signature bytes.
C3_NoExecutionWhilePaused == \A e \in executed : e.signer # ZERO

\* C4: after emergencyPause and then emergencyUnpause(newKey), agentSigner is
\* newKey, a submission is Executed only if its signature recovers to newKey,
\* and a proposal signed by a different key that was registered before the
\* pause is rejected as "Executor: Invalid signature" (its deadline being in
\* the window, the check before).
C4_OnlyNewKeyAfterUnpause ==
    pauseHist.new # NoKey =>
        /\ agentSigner = pauseHist.new
        /\ \A s \in Relayers, p \in Proposals :
               /\ \A sig \in SignaturesFor(p) :
                      executeProposalResult(s, p, sig) = Executed
                          => Recovered(p, sig) = pauseHist.new
               /\ (pauseHist.old \in Keys \ {pauseHist.new}
                      /\ validDeadline(p.deadline) = OK)
                     => executeProposalResult(s, p,
                            signMessage(pauseHist.old, _getProposalHash(p)))
                          = InvalidSignature

\* Paused under one key and unpaused with another: a proposal signed by the
\* new key was Executed and one signed by the old key is rejected.
C4_Witness ==
    /\ pauseHist.new # NoKey
    /\ pauseHist.old \in Keys \ {pauseHist.new}
    /\ \E e \in executed :
           e.signer = pauseHist.new /\ Recovered(e.p, e.sig) = pauseHist.new
    /\ \E p \in Proposals :
           executeProposalResult(Relayer, p,
               signMessage(pauseHist.old, _getProposalHash(p))) = InvalidSignature

----------------------------------------------------------------------------
(* Order of the checks *)

InWindow(deadline) ==
    /\ now + MIN_DEADLINE_DURATION <= deadline
    /\ deadline <= now + MAX_DEADLINE_DURATION

DeadlineReasons ==
    {"Executor: Deadline has passed", "Executor: Deadline too far",
     "Executor: Deadline too soon"}

SignatureReasons == {"Executor: Invalid signature length", InvalidSignature}

\* C5: the checks run in the order deadline, signature, replay, policy and
\* stop at the first failure: a submission is rejected with the reason of
\* the earliest check it fails.
C5_ChecksInOrder ==
    \A s \in Relayers, p \in Proposals : \A sig \in SignaturesFor(p) :
        LET r == executeProposalResult(s, p, sig)
            sigOK == sig.len = 65 /\ Recovered(p, sig) = agentSigner
            keyUsed == NonceKey(agentSigner, p.nonce) \in usedNonces
        IN  /\ ~InWindow(p.deadline) => r \in DeadlineReasons
            /\ (InWindow(p.deadline) /\ ~sigOK) => r \in SignatureReasons
            /\ (InWindow(p.deadline) /\ sigOK /\ keyUsed) => r = NonceReused
            /\ (InWindow(p.deadline) /\ sigOK /\ ~keyUsed /\ PolicyCheck(p) # OK)
                  => r = PolicyCheck(p)

\* An expired proposal over the policy cap, with a bad signature and a used
\* nonce, is rejected for its deadline.
C5_Witness ==
    \E p \in Proposals : \E sig \in SignaturesFor(p) :
        /\ ~InWindow(p.deadline)
        /\ SignatureCheck(p, sig) # OK
        /\ ReplayCheck(p) # OK
        /\ PolicyCheck(p) # OK
        /\ executeProposalResult(Relayer, p, sig) = "Executor: Deadline has passed"

\* C6: a submission that passes the deadline, signature and replay checks
\* and is then rejected by the policy check or fails in the effect leaves its
\* (signer, nonce) key marked used.
C6_FailedProposalKeepsNonce ==
    \A s \in Relayers, p \in Proposals : \A sig \in SignaturesFor(p) :
        (/\ validDeadline(p.deadline) = OK
         /\ SignatureCheck(p, sig) = OK
         /\ ReplayCheck(p) = OK
         /\ executeProposalResult(s, p, sig) # Executed)
        => NonceKey(agentSigner, p.nonce) \in usedNoncesAfter(s, p, sig)

----------------------------------------------------------------------------
(* Signer and Executor *)

\* C7: the Signer and the Executor compute the same hash of a proposal, so a
\* signature made by Signer.signProposal passes the Executor's signature
\* check whenever the Signer's address is the registered agentSigner.
C7_SignerMatchesExecutor ==
    \A p \in Proposals :
        /\ Keccak256(encodeProposal(p)) = _getProposalHash(p)
        /\ agentSigner = AgentWallet => SignatureCheck(p, signProposal(p)) = OK

\* C8: whether a proposal passes the replay check depends only on the
\* proposals Executed for its own vault: the check fails only if a proposal
\* with the same nonce was Executed for the same vault.
C8_VaultsIndependent ==
    \A p \in Proposals :
        ReplayCheck(p) # OK
            => \E e \in executed : e.p.vault = p.vault /\ e.p.nonce = p.nonce

----------------------------------------------------------------------------
(* Deadlines *)

OtherChecksPass(s, p, sig) ==
    /\ SignatureCheck(p, sig) = OK
    /\ ReplayCheck(p) = OK
    /\ PolicyCheck(p) = OK
    /\ EffectCheck(s, p) = OK

\* C9 as stated: a deadline at or before the current time is rejected, and a
\* deadline one second in the future is accepted if all other checks pass.
C9_OneSecondAhead ==
    \A s \in Relayers, p \in Proposals : \A sig \in SignaturesFor(p) :
        /\ p.deadline <= now => executeProposalResult(s, p, sig) \in DeadlineReasons
        /\ (p.deadline = now + 1 /\ OtherChecksPass(s, p, sig))
              => executeProposalResult(s, p, sig) = Executed

\* C9 amended: a deadline at or before the current time is always rejected
\* as passed, and since time only advances it stays rejected; a deadline less
\* than MIN_DEADLINE_DURATION ahead, one second included, is rejected too; the
\* earliest deadline accepted, if all other checks pass, is the current time
\* plus MIN_DEADLINE_DURATION.
C9_EarliestDeadline ==
    /\ \A s \in Relayers, p \in Proposals : \A sig \in SignaturesFor(p) :
           LET r == executeProposalResult(s, p, sig)
           IN  /\ p.deadline <= now => r = "Executor: Deadline has passed"
               /\ (now < p.deadline /\ p.deadline < now + MIN_DEADLINE_DURATION)
                     => r = "Executor: Deadline too soon"
               /\ (p.deadline = now + MIN_DEADLINE_DURATION /\ OtherChecksPass(s, p, sig))
                     => r = Executed
    /\ \A e \in executed : e.at <= now /\ e.at < e.p.deadline
    /\ now >= DeployTime

\* A proposal was Executed with its deadline exactly MIN_DEADLINE_DURATION
\* ahead, and one with its deadline one second ahead is rejected as too soon.
C9_Witness ==
    /\ \E e \in executed : e.p.deadline = e.at + MIN_DEADLINE_DURATION
    /\ \E p \in Proposals :
           /\ p.deadline = now + 1
           /\ executeProposalResult(Relayer, p, signMessage(agentSigner, _getProposalHash(p)))
                  = "Executor: Deadline too soon"

\* C10: the deadline window is enforced when executeProposal runs: every
\* Executed proposal had its deadline between MIN_DEADLINE_DURATION and
\* MAX_DEADLINE_DURATION after the time of its execution, and a submission
\* whose deadline is outside that window now is rejected for its deadline.
C10_WindowAtExecution ==
    /\ \A e \in executed :
           /\ e.at + MIN_DEADLINE_DURATION <= e.p.deadline
           /\ e.p.deadline <= e.at + MAX_DEADLINE_DURATION
    /\ \A s \in Relayers, p \in Proposals : \A sig \in SignaturesFor(p) :
           ~InWindow(p.deadline) => executeProposalResult(s, p, sig) \in DeadlineReasons

\* A proposal was Executed with its deadline exactly MAX_DEADLINE_DURATION
\* ahead, and a proposal whose deadline was in the window at deployment is
\* rejected later, validly signed, because its deadline has left the window.
C10_Witness ==
    /\ \E e \in executed : e.p.deadline = e.at + MAX_DEADLINE_DURATION
    /\ \E p \in Proposals :
           /\ DeployTime + MIN_DEADLINE_DURATION <= p.deadline
           /\ p.deadline <= DeployTime + MAX_DEADLINE_DURATION
           /\ ~InWindow(p.deadline)
           /\ agentSigner \in Keys
           /\ executeProposalResult(Relayer, p, signMessage(agentSigner, _getProposalHash(p)))
                  \in DeadlineReasons

----------------------------------------------------------------------------
(* Policy caps *)

Amounts ==
    {0, 10, 11, 20, 21, 100, 101, 109, 110, 200, 201, 209, 210,
     MaxUint \div 100, MaxUint \div 100 + 1}

Balances == {0, 100, 1000}

ActionTypes == {0, 1, 2}

HasActivePolicy(v) == policyOf(v).createdAt > 0 /\ policyOf(v).isActive

\* The params of an action of the given type on a venue the policy of v allows.
CapParams(v, actionType, amount, vaultBalance) ==
    IF actionType = 0 THEN <<vaultPolicies[v].allowedDex[1], amount, vaultBalance>>
    ELSE <<amount, vaultBalance>>

CapAnswer(v, actionType, amount, vaultBalance) ==
    validateAction(Owner, v, actionType, CapParams(v, actionType, amount, vaultBalance))

ExceedsReasons ==
    {"PolicyManager: Trade size exceeds maximum allowed",
     "PolicyManager: Lending amount exceeds maximum allowed",
     "PolicyManager: Borrowing amount exceeds maximum allowed"}

\* C11 as stated: with an active policy of cap m, an amount of exactly m
\* percent of a (non-zero) vaultBalance passes validateAction and one unit
\* more fails with a policy violation, for Swap, Lend and Borrow.
C11_OneUnitAboveFails ==
    \A v \in Vaults, t \in ActionTypes, a \in Amounts, b \in Balances :
        (HasActivePolicy(v) /\ b > 0 /\ a * 100 = vaultPolicies[v].maxTradePercent * b) =>
            /\ CapAnswer(v, t, a, b) = Ret(TRUE, "")
            /\ ~CapAnswer(v, t, a + 1, b).reverted
            /\ ~CapAnswer(v, t, a + 1, b).isValid
            /\ CapAnswer(v, t, a + 1, b).message \in ExceedsReasons

\* C11 amended: the percentage is truncated.  With an active policy of cap
\* m, a non-zero vaultBalance and amount * 100 within the integer width, an
\* action passes exactly when amount * 100 < (m + 1) * vaultBalance and
\* otherwise is answered with the "exceeds maximum allowed" reason of its
\* type; so exactly m percent passes, and one unit more (still within the
\* integer width) fails exactly when vaultBalance <= 100.  With
\* vaultBalance = 0 or amount * 100 beyond the integer width the validation
\* reverts.
C11_TruncatedCap ==
    \A v \in Vaults, t \in ActionTypes, a \in Amounts, b \in Balances :
        HasActivePolicy(v) =>
            LET m == vaultPolicies[v].maxTradePercent
                r == CapAnswer(v, t, a, b)
            IN  /\ (b > 0 /\ a * 100 <= MaxUint) =>
                      /\ ~r.reverted
                      /\ r.isValid <=> a * 100 < (m + 1) * b
                      /\ ~r.isValid => r.message \in ExceedsReasons
                /\ (b > 0 /\ a * 100 = m * b) =>
                      /\ r = Ret(TRUE, "")
                      /\ (a + 1) * 100 <= MaxUint =>
                            (CapAnswer(v, t, a + 1, b).isValid <=> b > 100)
                /\ (b = 0 \/ a * 100 > MaxUint) => r.reverted

\* A swap of exactly the cap was Executed, and with the policy now in force
\* one unit more than the cap amount still passes while one percent more fails.
C11_Witness ==
    \E e \in executed :
        LET v == e.p.vault
            a == e.p.params[2]
            b == e.p.params[3]
        IN  /\ e.p.actionType = 0 /\ HasActivePolicy(v)
            /\ a * 100 = vaultPolicies[v].maxTradePercent * b
            /\ CapAnswer(v, 0, a + 1, b) = Ret(TRUE, "")
            /\ CapAnswer(v, 0, a + (b \div 100), b).message \in ExceedsReasons

----------------------------------------------------------------------------
(* Fail closed *)

OtherActionTypes == {3, 99, 255}

ValidationParams == {SwapX.params, LendOverCap.params, <<"dexY", 0, 1000>>, <<0, 1000>>}

\* C12: validateAction answers (false, reason), and executeProposal
\* therefore Executes nothing, for a vault that never had a policy, for a
\* vault whose policy is deactivated (setPolicy activates it again), and for
\* every action type other than swap, lend and borrow.
C12_FailClosed ==
    /\ \A v \in Vaults \cup {UnsetVault}, t \in ActionTypes \cup OtherActionTypes,
          params \in ValidationParams :
           LET r == validateAction(ExecutorAddr, v, t, params)
               answered == onlyAuthorizedValidator(ExecutorAddr)
           IN  /\ (answered /\ policyOf(v).createdAt = 0)
                     => r = Ret(FALSE, "PolicyManager: No policy found for vault")
               /\ (answered /\ policyOf(v).createdAt > 0 /\ ~policyOf(v).isActive)
                     => r = Ret(FALSE, "PolicyManager: Policy is inactive")
               /\ (answered /\ HasActivePolicy(v) /\ t \notin ActionTypes)
                     => r = Ret(FALSE, "PolicyManager: Unsupported action type")
               /\ ~answered => r.reverted
    /\ \A s \in Relayers, p \in Proposals : \A sig \in SignaturesFor(p) :
           (~HasActivePolicy(p.vault) \/ p.actionType \notin ActionTypes)
               => executeProposalResult(s, p, sig) # Executed
    /\ \A e \in executed : e.p.vault \in Vaults /\ e.p.actionType \in ActionTypes
    /\ \A v \in Vaults : lastActivity[v] > vaultPolicies[v].updatedAt
                             => vaultPolicies[v].isActive

\* A vault whose policy was deactivated: a validly signed proposal for it is
\* rejected as inactive, as are one for an address without policy and one of
\* an unsupported action type for a vault with an active policy.
C12_Witness ==
    /\ agentSigner \in Keys
    /\ onlyAuthorizedValidator(ExecutorAddr)
    /\ \E p \in Proposals :
           /\ p.vault \in Vaults /\ ~policyOf(p.vault).isActive
           /\ executeProposalResult(Relayer, p, signMessage(agentSigner, _getProposalHash(p)))
                  = "PolicyManager: Policy is inactive"
    /\ \E p \in Proposals :
           /\ p.vault = UnsetVault
           /\ executeProposalResult(Relayer, p, signMessage(agentSigner, _getProposalHash(p)))
                  = "PolicyManager: No policy found for vault"
    /\ \E p \in Proposals :
           /\ HasActivePolicy(p.vault) /\ p.actionType \notin ActionTypes
           /\ executeProposalResult(Relayer, p, signMessage(agentSigner, _getProposalHash(p)))
                  = "PolicyManager: Unsupported action type"

----------------------------------------------------------------------------
(* Venue whitelist *)

Venues == {"dexX", "dexY", "dexZ"}

AllowedVenues(v) == {policyOf(v).allowedDex[i] : i \in 1..Len(policyOf(v).allowedDex)}

VenueNotAllowed == "PolicyManager: DEX not allowed by policy"

\* C13: every Executed swap names a venue of the allowedDex list that the
\* vault's policy holds when it is executed; with an active policy a swap on
\* any other venue is answered "DEX not allowed by policy" and is not
\* Executed; and when setPolicy changes the list, the venues accepted are
\* exactly those of the list given to it.
C13_VenueWhitelist ==
    /\ [][\A e \in executed' \ executed :
              e.p.actionType = 0 => e.p.params[1] \in AllowedVenues(e.p.vault)]_vars
    /\ [][\A v \in Vaults :
              vaultPolicies'[v].allowedDex # vaultPolicies[v].allowedDex
                  => \E pi \in PolicyInputs : vaultPolicies'[v].allowedDex = pi.allowedDex]_vars
    /\ [](\A v \in Vaults, d \in Venues :
              HasActivePolicy(v) =>
                  LET r == validateAction(Owner, v, 0, <<d, 100, 1000>>)
                  IN  IF d \in AllowedVenues(v) THEN r.message # VenueNotAllowed
                      ELSE r = Ret(FALSE, VenueNotAllowed))
    /\ [](\A s \in Relayers, p \in Proposals : \A sig \in SignaturesFor(p) :
              (p.actionType = 0 /\ p.params[1] \notin AllowedVenues(p.vault))
                  => executeProposalResult(s, p, sig) # Executed)

\* A swap was Executed on a venue that setPolicy has since removed from the
\* vault's list: the same venue is now rejected for that vault.
C13_Witness ==
    \E e \in executed :
        /\ e.p.actionType = 0
        /\ HasActivePolicy(e.p.vault)
        /\ e.p.params[1] \notin AllowedVenues(e.p.vault)
        /\ validateAction(Owner, e.p.vault, 0, e.p.params) = Ret(FALSE, VenueNotAllowed)

----------------------------------------------------------------------------
(* setPolicy *)

InvalidPolicyReasons ==
    {"PolicyManager: Invalid risk tolerance", "PolicyManager: Invalid trade percent",
     "PolicyManager: Invalid emergency threshold",
     "PolicyManager: Must specify at least one DEX"}

OutOfBounds(pi) ==
    \/ pi.riskTolerance > 100
    \/ pi.maxTradePercent > 100
    \/ pi.emergencyThreshold > 100
    \/ Len(pi.allowedDex) = 0

\* C14: setPolicy rejects a call with riskTolerance, maxTradePercent or
\* emergencyThreshold above 100 or with no venue, and accepts values of 100;
\* a rejected call leaves the stored policies unchanged, so every stored
\* policy is within the bounds; an accepted call stores exactly the given
\* values and marks the policy active.
C14_SetPolicyValidated ==
    /\ [](\A c \in Senders, v \in Vaults, pi \in PolicyInputs :
              LET r == setPolicyResult(c, v, pi.riskTolerance, pi.maxTradePercent,
                                       pi.emergencyThreshold, pi.allowedDex)
                  stored == setPolicyStored(c, v, pi.riskTolerance, pi.maxTradePercent,
                                            pi.emergencyThreshold, pi.allowedDex)
              IN  /\ OutOfBounds(pi) => r # OK
                  /\ (OutOfBounds(pi) /\ c = Owner) => r \in InvalidPolicyReasons
                  /\ r # OK => stored = vaultPolicies
                  /\ r = OK =>
                        /\ stored[v].riskTolerance = pi.riskTolerance
                        /\ stored[v].maxTradePercent = pi.maxTradePercent
                        /\ stored[v].emergencyThreshold = pi.emergencyThreshold
                        /\ stored[v].allowedDex = pi.allowedDex
                        /\ stored[v].isActive
                        /\ \A w \in Vaults \ {v} : stored[w] = vaultPolicies[w])
    /\ [](\A v \in Vaults :
              ~OutOfBounds(vaultPolicies[v]) /\ vaultPolicies[v].createdAt > 0)
    /\ [][\A v \in Vaults :
              (vaultPolicies'[v] # vaultPolicies[v] /\ vaultPolicies'[v].isActive)
                  => \E pi \in PolicyInputs :
                        /\ ~OutOfBounds(pi)
                        /\ vaultPolicies'[v] =
                               setPolicyWritten(v, pi.riskTolerance, pi.maxTradePercent,
                                                pi.emergencyThreshold, pi.allowedDex)]_vars

\* A policy with every value at 100 is stored and active, while a call with
\* a value of 101 is rejected.
C14_Witness ==
    \E v \in Vaults :
        /\ vaultPolicies[v].riskTolerance = 100
        /\ vaultPolicies[v].maxTradePercent = 100
        /\ vaultPolicies[v].emergencyThreshold = 100
        /\ vaultPolicies[v].isActive
        /\ \E pi \in PolicyInputs :
               /\ pi.maxTradePercent = 101
               /\ setPolicyResult(Owner, v, pi.riskTolerance, pi.maxTradePercent,
                                  pi.emergencyThreshold, pi.allowedDex)
                      = "PolicyManager: Invalid trade percent"

----------------------------------------------------------------------------
(* Policy table *)

ActivePolicies(v) == {p \in policyRows : p.vaultAddress = v /\ p.active}

\* C15: every vault has zero or one active policy in every reachable state,
\* also while several policy writers for the vault are between their awaits.
C15_AtMostOneActive ==
    \A v \in Vaults : Cardinality(ActivePolicies(v)) <= 1

\* The calls that inserted a policy for v, and those still under way.
Updates(v) == {c \in Calls : calls[c].vaultAddress = v /\ calls[c].pc = "done"}

InFlight(v) ==
    {c \in Calls : calls[c].vaultAddress = v /\ calls[c].pc \notin {"idle", "done", "failed"}}

\* C16: every policy row of a vault has its own version, the versions are
\* 1..n without a gap, and rows are never deleted; once two updates of a vault
\* have completed and none is under way, exactly one policy is active, its
\* version is 2, and version 1 is retained with active = false.
C16_Versioning ==
    \A v \in Vaults :
        LET rows == {p \in policyRows : p.vaultAddress = v}
        IN  /\ Cardinality(rows) = Cardinality(Updates(v))
            /\ {p.version : p \in rows} = 1..Cardinality(rows)
            /\ (Cardinality(Updates(v)) = 2 /\ InFlight(v) = {}) =>
                  /\ {p.version : p \in ActivePolicies(v)} = {2}
                  /\ Cardinality(ActivePolicies(v)) = 1
                  /\ \E p \in rows : p.version = 1 /\ ~p.active

----------------------------------------------------------------------------
(* Audit log *)

AlreadyLogged == "AuditLog: Execution already logged"

\* C17: an AuditLog holds at most one record per proposalHash: logExecution
\* for a recorded hash is rejected, whoever calls it and whatever the other
\* arguments, and no transaction of AuditLog or Executor modifies or removes a
\* record or an entry of allExecutions.
C17_RecordedOnce ==
    /\ [](\A log \in AuditLogs :
              /\ \A l, m \in executionLogs[log] : l.proposalHash = m.proposalHash => l = m
              /\ Len(allExecutions[log]) = Cardinality(executionLogs[log])
              /\ \A c \in Senders \cup {ExecutorAddr}, a \in DirectLogs :
                     a.proposalHash \in LoggedHashes(log) =>
                         LET r == logExecutionResult(log, c, a.vault, a.executor,
                                                     a.proposalHash, a.ipfsHash)
                         IN  /\ r # OK
                             /\ onlyAuthorizedLogger(log, c) => r = AlreadyLogged)
    /\ [][\A log \in AuditLogs :
              /\ executionLogs[log] \subseteq executionLogs'[log]
              /\ Len(allExecutions[log]) <= Len(allExecutions'[log])
              /\ SubSeq(allExecutions'[log], 1, Len(allExecutions[log])) = allExecutions[log]]_vars

\* A hash is recorded, and logging it again, with another vault, is rejected.
C17_Witness ==
    \E log \in AuditLogs : \E l \in executionLogs[log], a \in DirectLogs :
        /\ a.proposalHash = l.proposalHash
        /\ a.vault # l.vault
        /\ logExecutionResult(log, Owner, a.vault, a.executor, a.proposalHash, a.ipfsHash)
              = AlreadyLogged

\* The records of every AuditLog, and the records the Executed proposals call for.
AllRecords == UNION {executionLogs[log] : log \in AuditLogs}

ExecutedRecords ==
    {ExecutionLog(e.p.vault, e.sender, e.p.actionType, e.p.params,
                  _getProposalHash(e.p), e.p.ipfsHash, e.at) : e \in executed}

\* C18: the records of the audit trail are exactly those of the Executed
\* proposals: one per Executed proposal, keyed by its hash and carrying its
\* vault, actionType, params and report hash, and none for anything else.
C18_RecordsAreExecutions == AllRecords = ExecutedRecords

----------------------------------------------------------------------------
(* The setup of the Executor tests *)

\* What the tests' beforeEach establishes for a vault: a policy is set, the
\* Executor is an authorized executor of the vault and an authorized logger
\* of the AuditLog.
TestSetup(vault) ==
    /\ HasActivePolicy(vault)
    /\ ExecutorAddr \in authorizedExecutors[vault]
    /\ ExecutorAddr \in authorizedLoggers[auditLog]

\* The policy's verdict on the action of p, as given to an authorized caller.
SatisfiesPolicy(p) ==
    LET v == validateAction(Owner, p.vault, p.actionType, p.params)
    IN  ~v.reverted /\ v.isValid

\* C19: in the setup of the Executor tests, a proposal signed by the
\* registered agent signer, with an unused nonce, a deadline inside the window
\* and an action that satisfies the policy is Executed, whoever relays it.
C19_ValidProposalExecutes ==
    \A s \in Relayers, p \in Proposals : \A sig \in SignaturesFor(p) :
        (/\ p.vault \in Vaults
         /\ TestSetup(p.vault)
         /\ agentSigner # ZERO
         /\ Recovered(p, sig) = agentSigner
         /\ SignatureCheck(p, sig) = OK
         /\ ~isNonceUsed(p.nonce)
         /\ InWindow(p.deadline)
         /\ p.ipfsHash # ZERO
         /\ _getProposalHash(p) \notin LoggedHashes(auditLog)
         /\ SatisfiesPolicy(p))
            => executeProposalResult(s, p, sig) = Executed

----------------------------------------------------------------------------
(* Signature rejection *)

\* Signature bytes that are no signature: not 65 bytes, or a recovery byte
\* ecrecover does not accept.
Malformed(sig) == sig.len # 65 \/ sig.v \notin {27, 28}

\* C20: a submission whose signature bytes are malformed or recover to an
\* identity other than agentSigner is rejected as "Executor: Invalid
\* signature" (its deadline being in the window, so that the signature is
\* looked at), and the rejection leaves the nonce unused.
C20_OneSignatureReason ==
    \A s \in Relayers, p \in Proposals : \A sig \in SignaturesFor(p) :
        (validDeadline(p.deadline) = OK
         /\ (Malformed(sig) \/ Recovered(p, sig) # agentSigner))
            => /\ executeProposalResult(s, p, sig) = InvalidSignature
               /\ usedNoncesAfter(s, p, sig) = usedNonces

----------------------------------------------------------------------------
(* Nonce usage on chain *)

ExecutedWith(n) == {e \in executed : e.p.nonce = n}

\* C26 as stated: isNonceUsed(n) is false as long as no proposal carrying
\* nonce n has been Executed and true in every state after one has been.
C26_UsedIffExecuted ==
    \A n \in Nonces : isNonceUsed(n) <=> ExecutedWith(n) # {}

\* C26: isNonceUsed(n) is true exactly when a proposal carrying nonce n has
\* been Executed under the identity that is agentSigner now: false as long as
\* there is none, true after one as long as agentSigner stays the same, and
\* false again once agentSigner is replaced by an identity under which nonce
\* n was not consumed.
C26_UsedIffExecutedUnderSigner ==
    \A n \in Nonces :
        isNonceUsed(n) <=> (\E e \in ExecutedWith(n) : e.signer = agentSigner)

\* A nonce that was consumed reads unused after the signer was replaced.
C26_Witness ==
    \E n \in Nonces :
        /\ ExecutedWith(n) # {}
        /\ \A e \in ExecutedWith(n) : e.signer # agentSigner
        /\ agentSigner \in Keys
        /\ ~isNonceUsed(n)

----------------------------------------------------------------------------
(* Access control *)

NotOwner == "Ownable: caller is not the owner"

Callers == {Owner, Relayer, OtherRelayer, ExecutorAddr, AgentWallet}

\* C27: only the owner passes setPolicy, deactivatePolicy, updateAgentSigner,
\* emergencyPause and emergencyUnpause; only the owner or an authorized
\* validator gets an answer from validateAction; only an authorized executor
\* passes Vault.executeAction. A call by anyone else is rejected and changes
\* no state: the call itself is a step that leaves every variable as it was,
\* and an executeProposal whose Executor is not authorized on the vault is not
\* Executed and consumes no nonce.
C27_AccessControl ==
    /\ [](/\ \A c \in Callers \ {Owner}, v \in Vaults, pi \in PolicyInputs :
                /\ setPolicyResult(c, v, pi.riskTolerance, pi.maxTradePercent,
                                   pi.emergencyThreshold, pi.allowedDex) = NotOwner
                /\ setPolicyStored(c, v, pi.riskTolerance, pi.maxTradePercent,
                                   pi.emergencyThreshold, pi.allowedDex) = vaultPolicies
          /\ \A c \in Callers, v \in Vaults, pl \in Payloads :
                validateAction(c, v, pl.actionType, pl.params).reverted
                    <=> ~(c = Owner \/ c \in authorizedValidators)
          /\ \A c \in Callers, v \in Vaults :
                executeActionResult(c, v) = OK <=> c \in authorizedExecutors[v]
          /\ \A s \in Relayers, p \in Proposals : \A sig \in SignaturesFor(p) :
                (p.vault \in Vaults /\ ExecutorAddr \notin authorizedExecutors[p.vault])
                    => /\ executeProposalResult(s, p, sig) # Executed
                       /\ usedNoncesAfter(s, p, sig) = usedNonces)
    /\ [][\A c \in Senders \ {Owner} :
            (\/ \E k \in Keys \cup {ZERO} : updateAgentSigner(c, k)
             \/ emergencyPause(c)
             \/ \E k \in Keys \cup {ZERO} : emergencyUnpause(c, k)
             \/ \E v \in Vaults, pi \in PolicyInputs :
                    setPolicy(c, v, pi.riskTolerance, pi.maxTradePercent,
                              pi.emergencyThreshold, pi.allowedDex)
             \/ \E v \in Vaults : deactivatePolicy(c, v))
                => UNCHANGED vars]_vars

\* The Executor is neither validator nor executor of a vault any more, while
\* the owner has changed the configuration.
C27_Witness ==
    /\ ExecutorAddr \notin authorizedValidators
    /\ \E v \in Vaults : ExecutorAddr \notin authorizedExecutors[v]
    /\ adminOps = MaxAdminOps

----------------------------------------------------------------------------
(* Nonce order *)

\* C28: a proposal whose nonce was not consumed under the current signer
\* passes the replay check whatever other nonces were consumed, greater ones
\* included: nonces need not be consumed in order and gaps need not be filled.
C28_AnyUnusedNoncePasses ==
    \A p \in Proposals :
        (~\E e \in ExecutedWith(p.nonce) : e.signer = agentSigner)
            => ReplayCheck(p) = OK

\* Under one signer, nonce 2 was Executed first and nonce 1 after it.
C28_Witness ==
    \E e, f \in executed :
        /\ e.signer = f.signer
        /\ e.p.nonce > f.p.nonce
        /\ \E i, j \in 1..Len(allExecutions[auditLog]) :
               /\ i < j
               /\ allExecutions[auditLog][i] = _getProposalHash(e.p)
               /\ allExecutions[auditLog][j] = _getProposalHash(f.p)

----------------------------------------------------------------------------
(* Signer nonces *)

\* C21: over any sequence of Signer operations the nonces issued under the
\* one signer key never decrease and are never issued twice: every nonce
\* issued is above every nonce issued before it.
C21_NoncesStrictlyIncrease ==
    \A i \in 1..Len(issued) : \A j \in 1..Len(issued) :
        i < j => issued[i][2] < issued[j][2]

\* The nonces issued for one vault, in order.
IssuedFor(v) == SelectSeq(issued, LAMBDA e : e[1] = v)

LastIssued(v) ==
    IF IssuedFor(v) = <<>> THEN 0 ELSE IssuedFor(v)[Len(IssuedFor(v))][2]

Issues(v) ==
    /\ Len(issued') = Len(issued) + 1
    /\ issued'[Len(issued')][1] = v

----------------------------------------------------------------------------
(* Proposals of the Signer *)

\* C23: every proposal createProposal returned has a deadline inside the
\* window at creation time: neither passed already nor further ahead than the
\* longest lifetime the Signer itself accepts.
C23_DeadlineInWindow ==
    \A c \in created : validateProposalDeadline(c.p.deadline, c.at)

\* The proposals that differ from p in a single field.
SingleFieldVariants(p) ==
    {[p EXCEPT !.vault = v] : v \in Vaults \ {p.vault}}
    \cup {[p EXCEPT !.actionType = 1 - p.actionType]}
    \cup ({[p EXCEPT !.params = SwapX.params], [p EXCEPT !.params = LendOverCap.params]} \ {p})
    \cup {[p EXCEPT !.ipfsHash = "QmOther"]}
    \cup {[p EXCEPT !.nonce = p.nonce + 1]}
    \cup {[p EXCEPT !.deadline = p.deadline + 1]}

\* C24: for every proposal p the Signer created, signProposal(p) returns a
\* signature that verifySignature accepts for p, the signature of a proposal
\* that differs from p in a single field is not accepted for p, and bytes
\* that are no well-formed signature are answered with false.
C24_RoundTrip ==
    \A c \in created :
        /\ ~signProposalResult(c.p).threw
        /\ verifySignature(c.p, signProposalResult(c.p).signature)
        /\ \A q \in SingleFieldVariants(c.p) :
               ~signProposalResult(q).threw
                   => ~verifySignature(c.p, signProposalResult(q).signature)
        /\ ~verifySignature(c.p, MalformedSignature)
        /\ ~verifySignature(c.p, ShortSignature)

\* C25: Signer.isNonceUsed(vault, n) is true exactly for the nonces the Signer
\* has issued for the vault: false for every n, 0 included, before any
\* issuance, and after the first one true for 1 and false for 0 and 2.
C25_UsedIffIssued ==
    \A v \in Vaults : \A n \in 0..(MaxIssued + 1) :
        Signer_isNonceUsed(v, n) <=> (\E i \in 1..Len(issued) : issued[i] = <<v, n>>)

----------------------------------------------------------------------------
(* Arithmetic of the validation *)

\* C30: validateAction answers every Swap, Lend or Borrow query on a vault
\* with an active policy with a returned (ok, reason) pair; when vaultBalance
\* is 0 or amount * 100 exceeds the integer width the action is rejected with
\* a returned reason, never by an arithmetic failure of the validation.
C30_AlwaysAnswered ==
    \A v \in Vaults, t \in ActionTypes, a \in Amounts, b \in Balances :
        HasActivePolicy(v) =>
            LET r == CapAnswer(v, t, a, b)
            IN  /\ ~r.reverted
                /\ (b = 0 \/ a * 100 > MaxUint) => (~r.isValid /\ r.message \in ExceedsReasons)

----------------------------------------------------------------------------
(* Gas price limit of the relayer *)

\* C29: the relayer never submits an executeProposal transaction at a gas
\* price above maxGasPrice, however the network gas price moves between the
\* steps of a relay request; a request that finds the price above the limit
\* ends with 'Gas price too high' and nothing submitted for it.
C29_NeverAboveMaxGasPrice ==
    /\ \A t \in submitted : t.gasPrice <= maxGasPrice
    /\ \A r \in RelayIds :
           relay[r].error = "Gas price too high" =>
               /\ relay[r].pc = "done" /\ ~relay[r].success
               /\ relay[r].gasPrice > maxGasPrice

====
